---- MODULE Spec2Model ----
(***************************************************************************)
(* A model of src/main.ts of cli-build-app: the `build app` command.       *)
(* run() picks a configuration factory by args.mode and then one of three  *)
(* paths (serve, file watch, one-shot build).  The webpack compiler, the   *)
(* express application and the logger are collaborators: the model keeps   *)
(* what main.ts hands to them and lets their callbacks fire with every     *)
(* argument combination.                                                   *)
(***************************************************************************)
EXTENDS Integers, Sequences, FiniteSets, TLC

\* ------------------------------------------------------------------ bounds
\* most modules an input configuration lists over all its entries
MaxModules == 3
\* longest plugin list of an input configuration
MaxPlugins == 1
\* watch callbacks (first compile and recompilations) followed per session
MaxCallbacks == 2
\* 'done' events followed per memory-watch session
MaxDone == 2

\* --------------------------------------------------------------- constants
DefaultPort == 9999

Ports == {DefaultPort, 8080}
Modes == {"dist", "dev", "test", "unset"}
Watches == {"unset", "file", "memory"}
Factories == {"dist", "dev", "test"}
EntryNames == {"main", "vendor"}
Modules == {"a.js", "b.js"}
PluginNames == {"DefinePlugin"}

NoErr == "null"
CompileError == "CompileError"
ListenError == "EADDRINUSE"
NoStats == 0
Undefined == "undefined"

SeqsUpTo(S, lo, hi) == UNION {[1..n -> S] : n \in lo..hi}

RECURSIVE SumLen(_, _)
SumLen(e, names) ==
  IF names = {} THEN 0
  ELSE LET n == CHOOSE x \in names : TRUE
       IN Len(e[n]) + SumLen(e, names \ {n})

\* the entry objects of the input configurations: one or two named entries,
\* each a non-empty module list
EntrySets ==
  {e \in UNION {[d -> SeqsUpTo(Modules, 1, MaxModules)] : d \in {{"main"}, EntryNames}} :
     SumLen(e, DOMAIN e) <= MaxModules}

\* the raw configurations the factories turn into webpack configurations
RawConfigs == [entry : EntrySets, plugins : SeqsUpTo(PluginNames, 0, MaxPlugins)]

\* ------------------------------------------------------------------- state
VARIABLES
  args,          \* the parsed arguments: serve, watch, mode, port
  rc,            \* helper.configuration.get(): what the factories are given
  pc,            \* where the invocation of run() stands
  config,        \* the webpack configuration object (mutated in place)
  factoryCalls,  \* how often each configuration factory was called
  calls,         \* the calls among run, serve, build, fileWatch, memoryWatch
  warnings,      \* console.warn output
  compilers,     \* the compilers created: "plain" or "watch"
  spinner,       \* whether the ora spinner is spinning
  compiling,     \* whether the watch session is in a compilation
  cbCount,       \* watch callbacks / compile callbacks delivered
  doneCount,     \* 'done' events delivered to the memory-watch session
  lastCb,        \* the (err, stats) of the latest callback
  buildTrace,    \* what the build() compile callback did, in order
  logged,        \* the logger's calls
  doneTrace,     \* the hooks run by the latest 'done' dispatch, in order
  buildPromise,  \* the promise build() returns
  watchPromise,  \* the promise fileWatch() or memoryWatch() returns
  servePromise,  \* the promise serve() returns
  middleware,    \* app.use() registrations, in order
  listener       \* the express listener: "none", "listening", "bound", "failed"

vars == <<args, rc, pc, config, factoryCalls, calls, warnings, compilers,
          spinner, compiling, cbCount, doneCount, lastCb, buildTrace, logged,
          doneTrace, buildPromise, watchPromise, servePromise, middleware,
          listener>>

\* ---------------------------------------------------------------- promises
Pending == [state |-> "pending", value |-> Undefined]
NoPromise == [state |-> "none", value |-> Undefined]

\* resolve(v) of a promise executor: only a pending promise changes
PromiseResolve(p, v) ==
  IF p.state = "pending" THEN [state |-> "resolved", value |-> v] ELSE p

\* mutant: a reject that overwrites a settled promise
PromiseReject_Overwrite(p, e) == [state |-> "rejected", value |-> e]

\* reject(e) of a promise executor: only a pending promise changes
PromiseReject(p, e) ==
  IF p.state = "pending" THEN [state |-> "rejected", value |-> e] ELSE p

\* ------------------------------------------------------------ pure helpers
Truthy(w) == w # "unset"

\* mutant: the test mode falls through to the dist factory
SelectFactory_NoTest(mode) ==
  IF mode = "dev" THEN "dev" ELSE "dist"

\* run(): which configuration factory the mode selects
SelectFactory(mode) ==
  IF mode = "dev" THEN "dev"
  ELSE IF mode = "test" THEN "test"
  ELSE "dist"

\* a configuration factory: the configuration it builds from rc
ConfigFactory(name, raw) ==
  [factory |-> name, entry |-> raw.entry, plugins |-> raw.plugins]

NoConfig == [factory |-> "none", entry |-> <<>>, plugins |-> <<>>]

\* mutant: watch is tested before serve
RunPath_WatchFirst(a) ==
  IF Truthy(a.watch) THEN "fileWatch"
  ELSE IF a.serve THEN "serve"
  ELSE "build"

\* run(): which path the arguments select
RunPath(a) ==
  IF a.serve THEN "serve"
  ELSE IF Truthy(a.watch) THEN "fileWatch"
  ELSE "build"

\* mutant: memory watch is honoured whatever the mode
ServeBranch_AnyMode(a) ==
  IF a.watch = "memory" THEN "memoryWatch"
  ELSE IF Truthy(a.watch) THEN "fileWatch"
  ELSE "none"

\* serve(): which watch runner the first then() callback selects
ServeBranch(a) ==
  IF a.watch = "memory" /\ a.mode = "dev" THEN "memoryWatch"
  ELSE IF Truthy(a.watch) THEN "fileWatch"
  ELSE "none"

\* mutant: the fall-back to file watch is silent
RunWarnings_Silent(a) == <<>>

\* run(): the warning of the watch path
RunWarnings(a) ==
  IF a.watch = "memory"
  THEN <<"Memory watch requires the dev server. Using file watch instead...">>
  ELSE <<>>

\* serve(): the warning of the file-watch branch (the backquotes around
\* --mode=dev are left out of the string)
ServeWarnings(a) ==
  IF a.watch = "memory"
  THEN <<"Memory watch requires --mode=dev. Using file watch instead...">>
  ELSE <<>>

\* serve(): the middleware mounted before the promise chain
ServeStatic(a) ==
  IF a.watch # "memory" THEN <<"express.static">> ELSE <<>>

\* stats.toJson()
ToJson(stats) == <<"json", stats>>

\* mutant: the status message of the memory-watch session is used
RunningMessage_Dots(a) ==
  IF a.serve THEN <<"Listening on port ", a.port, "...">> ELSE <<"watching...">>

\* fileWatch(): the status message handed to the logger
RunningMessage(a) ==
  IF a.serve THEN <<"Listening on port ", a.port>> ELSE <<"watching...">>

\* memoryWatch(): the status message of its 'done' handler
MemoryMessage(a) == <<"Listening on port ", a.port, "...">>

NoMessage == <<>>

LogCall(stats, cfg, msg) == [stats |-> ToJson(stats), config |-> cfg, message |-> msg]

\* mutant: the compile callback forgets to reject
BuildSteps_NoReject(err, stats) ==
  <<"spinner.stop">>
  \o (IF stats # NoStats THEN <<"logger">> ELSE <<>>)
  \o <<"resolve">>

\* build(): the statements the compile callback executes, in order
BuildSteps(err, stats) ==
  <<"spinner.stop">>
  \o (IF err # NoErr THEN <<"reject">> ELSE <<>>)
  \o (IF stats # NoStats THEN <<"logger">> ELSE <<>>)
  \o <<"resolve">>

\* a promise after the reject/resolve statements of a callback, in order
RECURSIVE Settle(_, _, _)
Settle(p, steps, err) ==
  IF steps = <<>> THEN p
  ELSE Settle(IF Head(steps) = "reject" THEN PromiseReject(p, err)
              ELSE IF Head(steps) = "resolve" THEN PromiseResolve(p, Undefined)
              ELSE p,
              Tail(steps), err)

\* build(): the promise after the compile callback
BuildSettle(p, err, stats) == Settle(p, BuildSteps(err, stats), err)

\* mutant: the watch callback forgets to reject
WatchSteps_NoReject(err, stats) ==
  (IF stats # NoStats THEN <<"logger">> ELSE <<>>)
  \o <<"resolve">>

\* fileWatch(): the statements one watch callback executes, in order
WatchSteps(err, stats) ==
  (IF err # NoErr THEN <<"reject">> ELSE <<>>)
  \o (IF stats # NoStats THEN <<"logger">> ELSE <<>>)
  \o <<"resolve">>

\* the logger calls of a callback: one per logger statement it executes
LogCalls(steps, call) ==
  [i \in 1..Cardinality({j \in DOMAIN steps : steps[j] = "logger"}) |-> call]

\* mutant: the one-shot build logs with the watch status message
BuildLog_WithMessage(err, stats, cfg) ==
  LogCalls(BuildSteps(err, stats), LogCall(stats, cfg, <<"watching...">>))

\* build(): the logger calls of the compile callback
BuildLog(err, stats, cfg) ==
  LogCalls(BuildSteps(err, stats), LogCall(stats, cfg, NoMessage))

\* fileWatch(): the logger calls of one watch callback
WatchLog(err, stats, cfg, a) ==
  LogCalls(WatchSteps(err, stats), LogCall(stats, cfg, RunningMessage(a)))

\* fileWatch(): the promise after one watch callback
WatchSettle(p, err, stats) == Settle(p, WatchSteps(err, stats), err)

\* mutant: the listener is started without waiting for the watch promise
ListenReady_NoWait(p) == p.state \in {"pending", "resolved"}

\* serve(): the second then() callback runs once the promise the first one
\* returned is resolved
ListenReady(p) == p.state = "resolved"

\* mutant: the listen callback drops a bind error and leaves the promise
\* pending
ListenSettle_DropError(p, error) ==
  IF error # NoErr THEN p ELSE PromiseResolve(p, Undefined)

\* mutant: the listen callback ignores its error
ListenSettle_IgnoreError(p, error) == PromiseResolve(p, Undefined)

\* serve(): the promise after the app.listen callback
ListenSettle(p, error) ==
  IF error # NoErr THEN PromiseReject(p, error) ELSE PromiseResolve(p, Undefined)

Timeout == 20 * 1000
HotClient == "webpack-hot-middleware/client?timeout=20000&reload=true"
HotPlugins == <<"HotModuleReplacementPlugin", "NoEmitOnErrorsPlugin">>

\* mutant: the element is added at the end
Unshift_AtEnd(list, x) == list \o <<x>>

\* Array.prototype.unshift
Unshift(list, x) == <<x>> \o list

\* Array.prototype.push
Push(list, xs) == list \o xs

\* memoryWatch(): the configuration after the hot-reload injection
InjectHotReload(cfg) ==
  [cfg EXCEPT !.plugins = Push(cfg.plugins, HotPlugins),
              !.entry = [n \in DOMAIN cfg.entry |-> Unshift(cfg.entry[n], HotClient)]]

\* memoryWatch(): the middlewares it attaches
MemoryMiddleware ==
  <<"webpack-dev-middleware", "webpack-hot-middleware">>

Call(from, to) == [caller |-> from, callee |-> to]

\* createCompiler(): one more compiler session
CreateCompiler(cs, kind) == cs \o <<kind>>

\* mutant: the watch compiler is created beside a plain one
CreateWatchCompiler_Twice(cs) == CreateCompiler(CreateCompiler(cs, "plain"), "watch")

\* createWatchCompiler(): a compiler session with the spinner hooks
CreateWatchCompiler(cs) == CreateCompiler(cs, "watch")

\* createWatchCompiler(): the 'done' hook it registers
WatchCompilerDoneHooks == <<"spinner.stop">>

\* mutant: the logging handler is registered before the compiler's own hooks
MemoryDoneHooks_LoggerFirst == <<"logger">> \o WatchCompilerDoneHooks

\* memoryWatch(): the 'done' hooks of its session in the order of their
\* registration: createWatchCompiler()'s, then the logging handler
MemoryDoneHooks == WatchCompilerDoneHooks \o <<"logger">>

\* mutant: memoryWatch() returns a promise that is still pending
MemoryWatchReturn_Pending(p) == p

\* memoryWatch(): return Promise.resolve()
MemoryWatchReturn(p) == PromiseResolve(p, Undefined)

\* -------------------------------------------------------------------- Init
Init ==
  /\ args \in [serve : BOOLEAN, watch : Watches, mode : Modes, port : Ports]
  /\ rc \in RawConfigs
  /\ pc = "start"
  /\ config = NoConfig
  /\ factoryCalls = [f \in Factories |-> 0]
  /\ calls = <<>>
  /\ warnings = <<>>
  /\ compilers = <<>>
  /\ spinner = FALSE
  /\ compiling = FALSE
  /\ cbCount = 0
  /\ doneCount = 0
  /\ lastCb = [err |-> NoErr, stats |-> NoStats]
  /\ buildTrace = <<>>
  /\ logged = <<>>
  /\ doneTrace = <<>>
  /\ buildPromise = NoPromise
  /\ watchPromise = NoPromise
  /\ servePromise = NoPromise
  /\ middleware = <<>>
  /\ listener = "none"

\* ----------------------------------------------------------------- actions
\* run(), up to the promise it returns, on the one-shot build path
RunBuild ==
  /\ pc = "start"
  /\ RunPath(args) = "build"
  /\ factoryCalls' = [factoryCalls EXCEPT ![SelectFactory(args.mode)] = @ + 1]
  /\ config' = ConfigFactory(SelectFactory(args.mode), rc)
  /\ calls' = calls \o <<Call("run", "build")>>
  /\ compilers' = CreateCompiler(compilers, "plain")
  /\ spinner' = TRUE
  /\ buildPromise' = Pending
  /\ pc' = "compiling"
  /\ UNCHANGED <<args, rc, warnings, compiling, cbCount, doneCount, lastCb,
                 buildTrace, logged, doneTrace, watchPromise, servePromise,
                 middleware, listener>>

\* run(), up to the promise it returns, on the file-watch path
RunWatch ==
  /\ pc = "start"
  /\ RunPath(args) = "fileWatch"
  /\ factoryCalls' = [factoryCalls EXCEPT ![SelectFactory(args.mode)] = @ + 1]
  /\ config' = ConfigFactory(SelectFactory(args.mode), rc)
  /\ warnings' = warnings \o RunWarnings(args)
  /\ calls' = calls \o <<Call("run", "fileWatch")>>
  /\ compilers' = CreateWatchCompiler(compilers)
  /\ spinner' = TRUE
  /\ compiling' = TRUE
  /\ watchPromise' = Pending
  /\ pc' = "watching"
  /\ UNCHANGED <<args, rc, cbCount, doneCount, lastCb, buildTrace, logged,
                 doneTrace, buildPromise, servePromise, middleware, listener>>

\* run(), up to the promise it returns, on the serve path: serve() creates
\* the application, mounts the static handler and queues its first then()
RunServe ==
  /\ pc = "start"
  /\ RunPath(args) = "serve"
  /\ factoryCalls' = [factoryCalls EXCEPT ![SelectFactory(args.mode)] = @ + 1]
  /\ config' = ConfigFactory(SelectFactory(args.mode), rc)
  /\ calls' = calls \o <<Call("run", "serve")>>
  /\ middleware' = middleware \o ServeStatic(args)
  /\ servePromise' = Pending
  /\ pc' = "serve_select"
  /\ UNCHANGED <<args, rc, warnings, compilers, spinner, compiling, cbCount,
                 doneCount, lastCb, buildTrace, logged, doneTrace,
                 buildPromise, watchPromise, listener>>

\* build(): the compile callback
BuildCallback(err, stats) ==
  /\ pc = "compiling"
  /\ spinner' = IF \E i \in DOMAIN BuildSteps(err, stats) :
                       BuildSteps(err, stats)[i] = "spinner.stop"
                 THEN FALSE ELSE spinner
  /\ buildTrace' = buildTrace \o BuildSteps(err, stats)
  /\ buildPromise' = BuildSettle(buildPromise, err, stats)
  /\ logged' = logged \o BuildLog(err, stats, config)
  /\ lastCb' = [err |-> err, stats |-> stats]
  /\ cbCount' = cbCount + 1
  /\ pc' = "built"
  /\ UNCHANGED <<args, rc, config, factoryCalls, calls, warnings, compilers,
                 compiling, doneCount, doneTrace, watchPromise, servePromise,
                 middleware, listener>>

\* serve(): the first then() callback, memory-watch branch: memoryWatch()
ServeMemoryWatch ==
  /\ pc = "serve_select"
  /\ ServeBranch(args) = "memoryWatch"
  /\ calls' = calls \o <<Call("serve", "memoryWatch")>>
  /\ config' = InjectHotReload(config)
  /\ compilers' = CreateWatchCompiler(compilers)
  /\ spinner' = TRUE
  /\ compiling' = TRUE
  /\ middleware' = middleware \o MemoryMiddleware
  /\ watchPromise' = MemoryWatchReturn(Pending)
  /\ pc' = "serve_wait"
  /\ UNCHANGED <<args, rc, factoryCalls, warnings, cbCount, doneCount, lastCb,
                 buildTrace, logged, doneTrace, buildPromise, servePromise,
                 listener>>

\* serve(): the first then() callback, file-watch branch: fileWatch()
ServeFileWatch ==
  /\ pc = "serve_select"
  /\ ServeBranch(args) = "fileWatch"
  /\ warnings' = warnings \o ServeWarnings(args)
  /\ calls' = calls \o <<Call("serve", "fileWatch")>>
  /\ compilers' = CreateWatchCompiler(compilers)
  /\ spinner' = TRUE
  /\ compiling' = TRUE
  /\ watchPromise' = Pending
  /\ pc' = "serve_wait"
  /\ UNCHANGED <<args, rc, config, factoryCalls, cbCount, doneCount, lastCb,
                 buildTrace, logged, doneTrace, buildPromise, servePromise,
                 middleware, listener>>

\* serve(): the first then() callback without a watch: it returns undefined
ServeNoWatch ==
  /\ pc = "serve_select"
  /\ ServeBranch(args) = "none"
  /\ watchPromise' = PromiseResolve(Pending, Undefined)
  /\ pc' = "serve_wait"
  /\ UNCHANGED <<args, rc, config, factoryCalls, calls, warnings, compilers,
                 spinner, compiling, cbCount, doneCount, lastCb, buildTrace,
                 logged, doneTrace, buildPromise, servePromise, middleware,
                 listener>>

\* fileWatch(): one call of the compiler.watch() handler; a callback that
\* carries stats follows the session's 'done' hooks, which stop the spinner
WatchCallback(err, stats) ==
  /\ "fileWatch" \in {calls[i].callee : i \in DOMAIN calls}
  /\ cbCount < MaxCallbacks
  /\ compiling
  /\ compiling' = FALSE
  /\ spinner' = IF stats # NoStats THEN FALSE ELSE spinner
  /\ watchPromise' = WatchSettle(watchPromise, err, stats)
  /\ logged' = logged \o WatchLog(err, stats, config, args)
  /\ lastCb' = [err |-> err, stats |-> stats]
  /\ cbCount' = cbCount + 1
  /\ UNCHANGED <<args, rc, pc, config, factoryCalls, calls, warnings,
                 compilers, doneCount, buildTrace, doneTrace, buildPromise,
                 servePromise, middleware, listener>>

\* createWatchCompiler(): the 'invalid' hook of a watch session
Invalid ==
  /\ "watch" \in {compilers[i] : i \in DOMAIN compilers}
  /\ spinner' = TRUE
  /\ compiling' = TRUE
  /\ UNCHANGED <<args, rc, pc, config, factoryCalls, calls, warnings,
                 compilers, cbCount, doneCount, lastCb, buildTrace, logged,
                 doneTrace, buildPromise, watchPromise, servePromise,
                 middleware, listener>>

\* memoryWatch(): a 'done' event of its session: one dispatch runs the hooks
\* in the order of their registration.  The compiler delivers a 'done' only
\* for a compilation under way: after one, an 'invalid' precedes the next.
Done(stats) ==
  /\ "memoryWatch" \in {calls[i].callee : i \in DOMAIN calls}
  /\ doneCount < MaxDone
  /\ compiling
  /\ compiling' = FALSE
  /\ spinner' = IF \E i \in DOMAIN MemoryDoneHooks :
                       MemoryDoneHooks[i] = "spinner.stop"
                 THEN FALSE ELSE spinner
  /\ doneTrace' = MemoryDoneHooks
  /\ logged' = logged \o LogCalls(MemoryDoneHooks,
                                   LogCall(stats, config, MemoryMessage(args)))
  /\ doneCount' = doneCount + 1
  /\ UNCHANGED <<args, rc, pc, config, factoryCalls, calls, warnings,
                 compilers, cbCount, lastCb, buildTrace, buildPromise,
                 watchPromise, servePromise, middleware, listener>>

\* serve(): the second then() callback, run once the first one's promise is
\* resolved: app.listen()
ServeListen ==
  /\ pc = "serve_wait"
  /\ ListenReady(watchPromise)
  /\ listener' = "listening"
  /\ pc' = "serve_listen"
  /\ UNCHANGED <<args, rc, config, factoryCalls, calls, warnings, compilers,
                 spinner, compiling, cbCount, doneCount, lastCb, buildTrace,
                 logged, doneTrace, buildPromise, watchPromise, servePromise,
                 middleware>>

\* serve(): a rejected first promise skips the second then() callback and
\* rejects the chain with the same error
ServeSkipListen ==
  /\ pc = "serve_wait"
  /\ watchPromise.state = "rejected"
  /\ servePromise' = PromiseReject(servePromise, watchPromise.value)
  /\ pc' = "serve_failed"
  /\ UNCHANGED <<args, rc, config, factoryCalls, calls, warnings, compilers,
                 spinner, compiling, cbCount, doneCount, lastCb, buildTrace,
                 logged, doneTrace, buildPromise, watchPromise, middleware,
                 listener>>

\* serve(): the app.listen() callback
ListenCallback(error) ==
  /\ pc = "serve_listen"
  /\ listener = "listening"
  /\ listener' = IF error # NoErr THEN "failed" ELSE "bound"
  /\ servePromise' = ListenSettle(servePromise, error)
  /\ pc' = "serve_done"
  /\ UNCHANGED <<args, rc, config, factoryCalls, calls, warnings, compilers,
                 spinner, compiling, cbCount, doneCount, lastCb, buildTrace,
                 logged, doneTrace, buildPromise, watchPromise, middleware>>

Errs == {NoErr, CompileError}
\* the stats of the n-th compilation are identified by n
StatsOf(n) == {NoStats, n}

Next ==
  \/ RunBuild
  \/ RunWatch
  \/ RunServe
  \/ \E err \in Errs, stats \in StatsOf(cbCount + 1) : BuildCallback(err, stats)
  \/ ServeMemoryWatch
  \/ ServeFileWatch
  \/ ServeNoWatch
  \/ \E err \in Errs, stats \in StatsOf(cbCount + 1) : WatchCallback(err, stats)
  \/ Invalid
  \/ \E stats \in {doneCount + 1} : Done(stats)
  \/ ServeListen
  \/ ServeSkipListen
  \/ \E error \in {NoErr, ListenError} : ListenCallback(error)

Spec == Init /\ [][Next]_vars

\* The event loop runs every queued then() callback, and the compiler and
\* the listener deliver every callback they owe.  A file change ('invalid')
\* and a recompilation after the first compilation are not owed.
FairSpec ==
  /\ Spec
  /\ WF_vars(RunBuild) /\ WF_vars(RunWatch) /\ WF_vars(RunServe)
  /\ WF_vars(ServeMemoryWatch) /\ WF_vars(ServeFileWatch) /\ WF_vars(ServeNoWatch)
  /\ WF_vars(ServeListen) /\ WF_vars(ServeSkipListen)
  /\ WF_vars(\E err \in Errs, stats \in StatsOf(cbCount + 1) : BuildCallback(err, stats))
  /\ WF_vars(\E err \in Errs, stats \in StatsOf(cbCount + 1) :
               cbCount = 0 /\ WatchCallback(err, stats))
  /\ WF_vars(\E error \in {NoErr, ListenError} : ListenCallback(error))

\* ------------------------------------------------------------------ claims
Callees == {calls[i].callee : i \in DOMAIN calls}
RunCallees == {calls[i].callee : i \in {j \in DOMAIN calls : calls[j].caller = "run"}}
Rejected(e) == [state |-> "rejected", value |-> e]

\* C1: once run() has returned, it has called exactly one of serve, fileWatch
\* and build: serve when args.serve is set, otherwise fileWatch when
\* args.watch is set, otherwise build; build is never called when serve or
\* watch is set, and run() never calls fileWatch itself when serve is set.
C1_PathPriority ==
  pc # "start" =>
    /\ Cardinality({i \in DOMAIN calls : calls[i].caller = "run"}) = 1
    /\ RunCallees =
         {IF args.serve THEN "serve"
          ELSE IF args.watch # "unset" THEN "fileWatch"
          ELSE "build"}
    /\ (args.serve \/ args.watch # "unset") => "build" \notin Callees
    /\ args.serve => "fileWatch" \notin RunCallees

C1_Witness ==
  /\ args.serve /\ args.watch = "file" /\ args.mode = "test"
  /\ Callees = {"serve", "fileWatch"}

\* C2: once run() has returned, the factory named by a mode in
\* {dist, dev, test} was called exactly once and the other two never; any
\* other mode called the dist factory exactly once and the other two never.
C2_FactoryByMode ==
  pc # "start" =>
    factoryCalls =
      [f \in Factories |->
         IF f = (IF args.mode \in Factories THEN args.mode ELSE "dist")
         THEN 1 ELSE 0]

C2_Witness ==
  /\ pc = "watching" /\ args.mode = "test"
  /\ factoryCalls["test"] = 1 /\ cbCount = MaxCallbacks

\* C3: a one-shot build whose compile callback reported an error, with or
\* without stats, leaves the promise of build() rejected with that error.
C3_BuildErrorRejects ==
  (pc = "built" /\ lastCb.err # NoErr) => buildPromise = Rejected(lastCb.err)

C3_Witness ==
  /\ pc = "built" /\ lastCb.err = CompileError /\ lastCb.stats # NoStats
  /\ buildPromise.state = "rejected"

\* C4: a one-shot build whose compile callback reported stats and no error
\* leaves the promise of build() resolved, and the logger was called exactly
\* once, with the stats and the configuration and no status message, before
\* the callback's resolve.
C4_BuildStatsResolves ==
  (pc = "built" /\ lastCb.err = NoErr /\ lastCb.stats # NoStats) =>
    /\ buildPromise.state = "resolved"
    /\ logged = <<[stats |-> <<"json", lastCb.stats>>, config |-> config,
                   message |-> <<>>]>>
    /\ \E i, j \in DOMAIN buildTrace :
         /\ i < j
         /\ buildTrace[i] = "logger"
         /\ buildTrace[j] = "resolve"
    /\ Cardinality({i \in DOMAIN buildTrace : buildTrace[i] = "logger"}) = 1

C4_Witness ==
  /\ pc = "built" /\ lastCb.err = NoErr /\ lastCb.stats # NoStats
  /\ buildPromise.state = "resolved" /\ Len(logged) = 1

\* C5: the first watch callback of a file-watch session settles the promise
\* of fileWatch() (resolved when it reports no error, rejected with its error
\* otherwise), and no later step, a callback reporting an error included,
\* changes the settled promise.
C5_FirstCallbackSettles ==
  [][("fileWatch" \in Callees) =>
       /\ (cbCount = 0 /\ cbCount' = 1) =>
            watchPromise' = (IF lastCb'.err = NoErr
                             THEN [state |-> "resolved", value |-> Undefined]
                             ELSE Rejected(lastCb'.err))
       /\ cbCount >= 1 => watchPromise' = watchPromise]_vars

C5_Witness ==
  /\ "fileWatch" \in Callees /\ cbCount >= 2
  /\ lastCb.err = CompileError /\ watchPromise.state = "resolved"

\* C6: after memoryWatch() every named entry of the configuration is the
\* hot-reload client followed by the entry's original list, and the plugin
\* list is the original list followed by the HMR and the no-emit-on-errors
\* plugins.
C6_HotReloadInjection ==
  ("memoryWatch" \in Callees) =>
    /\ DOMAIN config.entry = DOMAIN rc.entry
    /\ \A n \in DOMAIN rc.entry :
         /\ Len(config.entry[n]) = Len(rc.entry[n]) + 1
         /\ config.entry[n][1] = HotClient
         /\ \A i \in DOMAIN rc.entry[n] : config.entry[n][i + 1] = rc.entry[n][i]
    /\ Len(config.plugins) = Len(rc.plugins) + 2
    /\ \A i \in DOMAIN rc.plugins : config.plugins[i] = rc.plugins[i]
    /\ config.plugins[Len(rc.plugins) + 1] = "HotModuleReplacementPlugin"
    /\ config.plugins[Len(rc.plugins) + 2] = "NoEmitOnErrorsPlugin"

C6_Witness ==
  /\ "memoryWatch" \in Callees
  /\ DOMAIN rc.entry = EntryNames
  /\ Len(rc.entry["main"]) = 2 /\ rc.entry["main"][1] # rc.entry["main"][2]
  /\ Len(rc.plugins) = 1

\* C7: with watch == memory and mode != dev the selected runner is
\* fileWatch, not memoryWatch; and on every path of run() other than
\* serve && watch == memory && mode == dev the entry lists and the plugin
\* list of the configuration stay those the factory returned.
C7_NoMutationOutsideMemoryDev ==
  /\ (args.watch = "memory" /\ args.mode # "dev"
        /\ pc \notin {"start", "serve_select"}) =>
       ("fileWatch" \in Callees /\ "memoryWatch" \notin Callees)
  /\ (pc # "start"
        /\ ~(args.serve /\ args.watch = "memory" /\ args.mode = "dev")) =>
       (config.entry = rc.entry /\ config.plugins = rc.plugins)

C7_Witness ==
  /\ args.serve /\ args.watch = "memory" /\ args.mode = "test"
  /\ "fileWatch" \in Callees /\ cbCount >= 1 /\ listener = "bound"
  /\ config.entry = rc.entry

\* C8: a failed bind of the listener leaves the promise of serve() rejected
\* with the bind error: in no state has the bind failed while the promise is
\* pending or resolved, and the promise resolves only with a bound listener.
C8_BindFailureRejects ==
  /\ listener = "failed" => servePromise = Rejected(ListenError)
  /\ servePromise.state = "resolved" => listener = "bound"

C8_Witness ==
  /\ listener = "failed" /\ args.watch = "file"
  /\ servePromise.state = "rejected"

\* C9: memoryWatch() is called only with mode == dev and watch == memory;
\* in every other combination with watch == memory, once the runner is
\* selected, exactly one warning was written, fileWatch() was called and
\* memoryWatch() was not, and no promise is rejected before a compile or
\* bind callback has reported an error.
C9_MemoryOnlyInDev ==
  /\ ("memoryWatch" \in Callees) => (args.mode = "dev" /\ args.watch = "memory")
  /\ (args.watch = "memory" /\ ~(args.serve /\ args.mode = "dev")
        /\ pc \notin {"start", "serve_select"}) =>
       /\ Len(warnings) = 1
       /\ "fileWatch" \in Callees
       /\ "memoryWatch" \notin Callees
       /\ cbCount = 0 =>
            (watchPromise.state = "pending" /\ servePromise.state # "rejected")
       /\ watchPromise.state = "rejected" => watchPromise.value = CompileError
       /\ servePromise.state = "rejected" =>
            servePromise.value \in {CompileError, ListenError}

C9_Witness ==
  /\ ~args.serve /\ args.watch = "memory" /\ args.mode = "dev"
  /\ Len(warnings) = 1 /\ watchPromise.state = "resolved"

\* C10: for every outcome of the compile callback of build(), exactly one of
\* reject and resolve is invoked on the promise, never both.
C10_ExactlyOneSettleCall ==
  pc = "built" =>
    Cardinality({i \in DOMAIN buildTrace :
                   buildTrace[i] \in {"reject", "resolve"}}) = 1

Runners == {"build", "fileWatch", "memoryWatch"}
Selected == pc \notin {"start", "serve_select"}

\* C11 (as stated): once the runner of an invocation of run() is selected,
\* exactly one compiler session has been created, for every combination of
\* serve, watch and mode.
C11_ExactlyOneCompiler ==
  Selected => Len(compilers) = 1

\* C11 (amended): an invocation of run() creates at most one compiler
\* session; once the runner is selected it has created exactly one when a
\* runner (build, fileWatch or memoryWatch) was called, a plain one for build
\* and a watch one otherwise, and none on the serve path without a watch,
\* where no runner is called.
C11_OneCompilerPerRunner ==
  /\ Len(compilers) <= 1
  /\ Len(compilers) = Cardinality(Callees \cap Runners)
  /\ Selected =>
       /\ Len(compilers) = (IF args.serve /\ args.watch = "unset" THEN 0 ELSE 1)
       /\ Callees \cap Runners =
            (IF args.serve
             THEN (IF args.watch = "unset" THEN {}
                   ELSE IF args.watch = "memory" /\ args.mode = "dev"
                   THEN {"memoryWatch"} ELSE {"fileWatch"})
             ELSE IF args.watch # "unset" THEN {"fileWatch"} ELSE {"build"})
       /\ \A i \in DOMAIN compilers :
            compilers[i] = (IF "build" \in Callees THEN "plain" ELSE "watch")

C11_Witness ==
  /\ args.serve /\ args.watch = "memory" /\ args.mode = "dev"
  /\ listener = "bound" /\ compilers = <<"watch">> /\ doneCount >= 1

\* C12: on every branch of serve() the listener is started only once the
\* promise of the selected watch path is resolved, with file watch not before
\* the first watch callback, and the promise of serve() is resolved only
\* once the listen callback has fired without an error.
C12_ListenAfterWatchSettles ==
  /\ listener # "none" =>
       /\ args.serve
       /\ watchPromise.state = "resolved"
       /\ "fileWatch" \in Callees => cbCount >= 1
  /\ servePromise.state = "resolved" =>
       (pc = "serve_done" /\ listener = "bound")

C12_Witness ==
  /\ args.serve /\ args.watch = "file" /\ cbCount = 1
  /\ listener = "bound" /\ servePromise.state = "resolved"

\* C13: every watch callback of a file-watch session that carries stats
\* calls the logger exactly once, with those stats, the configuration and
\* the message "Listening on port {port}" when args.serve is set and
\* "watching..." otherwise; a callback without stats does not call it.
C13_WatchLogsOncePerStats ==
  [][("fileWatch" \in Callees /\ cbCount' = cbCount + 1) =>
       IF lastCb'.stats # NoStats
       THEN logged' = Append(logged,
              [stats |-> <<"json", lastCb'.stats>>, config |-> config,
               message |-> IF args.serve
                           THEN <<"Listening on port ", args.port>>
                           ELSE <<"watching...">>])
       ELSE logged' = logged]_vars

C13_Witness ==
  /\ "fileWatch" \in Callees /\ args.serve /\ cbCount = 2
  /\ Len(logged) = 2 /\ lastCb.err # NoErr

\* C14: in a memory-watch session every 'done' event runs, in one dispatch,
\* the spinner's stop hook and then the handler that logs the stats; the
\* spinner is restarted only by an 'invalid' event, and every 'done' after
\* the first finds it restarted.
C14_DoneHookOrder ==
  /\ []((("memoryWatch" \in Callees) /\ doneCount >= 1) =>
          /\ Cardinality({i \in DOMAIN doneTrace : doneTrace[i] = "spinner.stop"}) = 1
          /\ Cardinality({i \in DOMAIN doneTrace : doneTrace[i] = "logger"}) = 1
          /\ \E i, j \in DOMAIN doneTrace :
               /\ i < j
               /\ doneTrace[i] = "spinner.stop"
               /\ doneTrace[j] = "logger")
  /\ [][("memoryWatch" \in Callees) =>
          /\ (doneCount' = doneCount + 1) =>
               /\ ~spinner'
               /\ logged' = Append(logged,
                    [stats |-> <<"json", doneCount'>>, config |-> config,
                     message |-> <<"Listening on port ", args.port, "...">>])
          /\ (doneCount >= 1 /\ doneCount' = doneCount + 1) => spinner
          /\ (~spinner /\ spinner') => Invalid]_vars

C14_Witness ==
  /\ "memoryWatch" \in Callees /\ doneCount = 2
  /\ ~spinner /\ Len(logged) = 2

\* C15: memoryWatch() returns a resolved promise with its two middlewares
\* attached, whatever the compiler does; on the serve + memory + dev path the
\* promise of serve() is never rejected with a compile error, only with a
\* bind error.  (That the listener is bound and the promise of serve() is
\* resolved before the first 'done' event is the witness.)
C15_MemoryWatchDoesNotWait ==
  ("memoryWatch" \in Callees) =>
    /\ watchPromise = [state |-> "resolved", value |-> Undefined]
    /\ middleware = <<"webpack-dev-middleware", "webpack-hot-middleware">>
    /\ servePromise.state = "rejected" =>
         (servePromise.value = ListenError /\ listener = "failed")

C15_Witness ==
  /\ "memoryWatch" \in Callees /\ doneCount = 0 /\ logged = <<>>
  /\ listener = "bound" /\ servePromise.state = "resolved"

\* the promise run() returns
RunPromise ==
  IF args.serve THEN servePromise
  ELSE IF args.watch # "unset" THEN watchPromise
  ELSE buildPromise

\* the terminal state an invocation of run() has reached, if any
Outcome ==
  IF RunPromise.state = "rejected" THEN "Failed"
  ELSE IF RunPromise.state = "resolved"
  THEN (IF args.serve THEN "Serving"
        ELSE IF args.watch # "unset" THEN "Watching"
        ELSE "Built")
  ELSE "running"

\* C16: when every pending compile, watch and listen callback eventually
\* fires, every invocation of run() eventually reaches one of Built (build
\* promise resolved), Watching (file-watch promise resolved), Serving
\* (listener bound, serve promise resolved) and Failed (promise rejected),
\* and a terminal state once reached never changes.
C16_ReachesOneTerminalState ==
  /\ <>(Outcome # "running")
  /\ [](Outcome = "Serving" => listener = "bound")
  /\ [][Outcome # "running" => Outcome' = Outcome /\ RunPromise' = RunPromise]_vars

C16_Witness ==
  /\ Outcome = "Serving" /\ args.watch = "file" /\ cbCount = 2
  /\ lastCb.err # NoErr

\* C17: whenever serve() has started listening and a watch was requested, a
\* content-serving middleware is attached to the application: the static
\* file handler or the in-memory asset middleware.
C17_ContentMiddlewareWhenListening ==
  (listener # "none" /\ args.watch # "unset") =>
    \E i \in DOMAIN middleware :
      middleware[i] \in {"express.static", "webpack-dev-middleware"}

\* C18: in serve() with file watch, a first watch callback that reports an
\* error rejects the file-watch promise with it, the listener is then never
\* started and the promise of serve() is never resolved and ends rejected
\* with that error; a later watch callback, whatever it reports, changes
\* neither the listener nor the promise of serve().
C18_WatchErrorInServe ==
  /\ []((args.serve /\ watchPromise.state = "rejected") =>
          /\ listener = "none"
          /\ servePromise.state \in {"pending", "rejected"}
          /\ servePromise.state = "rejected" =>
               servePromise.value = watchPromise.value
          /\ pc = "serve_failed" => servePromise.state = "rejected")
  /\ [][(args.serve /\ "fileWatch" \in Callees /\ cbCount' = cbCount + 1) =>
          /\ (cbCount = 0 /\ lastCb'.err # NoErr) =>
               watchPromise' = Rejected(lastCb'.err)
          /\ cbCount >= 1 =>
               (listener' = listener /\ servePromise' = servePromise)]_vars
  /\ (args.serve /\ watchPromise.state = "rejected") ~>
       (servePromise.state = "rejected")

C18_Witness ==
  /\ args.serve /\ args.watch = "file" /\ pc = "serve_failed"
  /\ servePromise = Rejected(CompileError) /\ listener = "none"
  /\ cbCount = 2

====
